---- MODULE Spec2Model ----
(***************************************************************************)
(* elka.h: a 16x24, one byte per pixel bitmap embedded as the global array *)
(* `image`, with the macros that give its dimensions.  The header holds no *)
(* function; the operations modelled here are the ones the declaration     *)
(*     uint8_t image[IMAGE_LENGTH] = { ... };                              *)
(* offers to the code that includes it: element reads, element writes     *)
(* (the array is not const), and uses of the IMAGE_LENGTH macro in an      *)
(* expression.                                                             *)
(***************************************************************************)
EXTENDS Integers, Sequences, FiniteSets, TLC

VARIABLES image, pc, row, col, idx, val, nwrites, watch, firstVal, n, quot, rem

vars == << image, pc, row, col, idx, val, nwrites, watch, firstVal, n, quot, rem >>

(* ---------------------------- bounds ---------------------------------- *)

\* Number of concurrent readers in SpecReaders.
NumReaders == 2

\* Number of element writes a consumer performs in SpecWrite.
MaxWrites == 1

\* Largest operand n of  n / IMAGE_LENGTH  and  n % IMAGE_LENGTH.
MaxN == 800

\* Rows, columns sampled by the concurrent readers and by the writer.
ProbeRows == {0, 8, 23}

ProbeCols == {0, 7, 15}

\* Subscripts whose repeated reads are followed in SpecReRead.
WatchSet == {7, 128, 383}

\* Byte values a consumer stores in SpecWrite.
WriteVals == {0, 255}

\* "No value yet" for val, idx, quot, rem, ... (outside every byte and index).
NoVal == 0 - 1

(* ---------------------------- macros ---------------------------------- *)

\* #define IMAGE_HEIGHT 24
IMAGE_HEIGHT == 24

\* Mutant: width and height exchanged.
IMAGE_WIDTH_AsHeight == IMAGE_HEIGHT

\* #define IMAGE_WIDTH 16
IMAGE_WIDTH == 16

\* #define PIXEL_SIZE 1
PIXEL_SIZE == 1

\* #define IMAGE_LENGTH IMAGE_WIDTH * IMAGE_HEIGHT * PIXEL_SIZE
\* The replacement list of the macro, token by token: a first operand and
\* the (operator, operand) pairs that follow it.  The preprocessor pastes
\* these tokens, unparenthesised, wherever IMAGE_LENGTH is written.
IMAGE_LENGTH_first == IMAGE_WIDTH

IMAGE_LENGTH_rest ==
    << [op |-> "*", arg |-> IMAGE_HEIGHT], [op |-> "*", arg |-> PIXEL_SIZE] >>

\* One C multiplicative operator on non-negative ints.
ApplyOp(a, op, b) ==
    CASE op = "*" -> a * b
      [] op = "/" -> a \div b
      [] op = "%" -> a % b

\* *, / and % share one precedence level and associate left to right, so a
\* chain of them is evaluated as a left fold.
RECURSIVE EvalLeft(_, _)
EvalLeft(acc, rest) ==
    IF rest = << >> THEN acc
    ELSE EvalLeft(ApplyOp(acc, Head(rest).op, Head(rest).arg), Tail(rest))

\* IMAGE_LENGTH standing alone, as in the array bound  image[IMAGE_LENGTH].
IMAGE_LENGTH == EvalLeft(IMAGE_LENGTH_first, IMAGE_LENGTH_rest)

\* The expression  x <op> IMAGE_LENGTH  after macro replacement:
\*     x <op> IMAGE_WIDTH * IMAGE_HEIGHT * PIXEL_SIZE
ExpandAsRightOperand(x, op) ==
    EvalLeft(x, << [op |-> op, arg |-> IMAGE_LENGTH_first] >> \o IMAGE_LENGTH_rest)

(* ---------------------------- the data -------------------------------- *)

\* The initialiser list of `image`, one tuple per source line (lines 10-33).
ImageRows == <<
    << \hff, \hff, \hff, \hff, \hff, \hff, \hff, \h95, \hfe, \hff, \hff, \hff, \hff, \hff, \hff, \hff >>,
    << \hff, \hff, \hff, \hff, \hff, \hff, \h8f, \h92, \h92, \hf9, \hff, \hff, \hff, \hff, \hff, \hff >>,
    << \hff, \hff, \hff, \hff, \hff, \hfa, \h91, \h9c, \h93, \h92, \hfe, \hff, \hff, \hff, \hff, \hff >>,
    << \hff, \hff, \hff, \hff, \hfd, \h99, \h93, \h95, \h97, \h94, \h94, \hfd, \hfd, \hff, \hff, \hff >>,
    << \hff, \hff, \hff, \hfe, \h91, \h94, \h94, \h93, \h98, \h94, \h9a, \h99, \hfe, \hff, \hff, \hff >>,
    << \hff, \hff, \hff, \hff, \hff, \hfd, \h99, \h91, \h90, \h98, \hfe, \hfe, \hfe, \hff, \hff, \hff >>,
    << \hff, \hff, \hff, \hff, \hee, \h9b, \h9c, \h94, \h90, \h99, \h9a, \hfd, \hff, \hff, \hff, \hff >>,
    << \hff, \hff, \hff, \h93, \h93, \h9a, \h9a, \h94, \h94, \h9a, \h8f, \h90, \hfc, \hff, \hff, \hff >>,
    << \hff, \hff, \hfb, \h98, \h91, \h93, \h9a, \h8f, \h9d, \h97, \h94, \h8f, \h98, \hff, \hff, \hff >>,
    << \hff, \hff, \hff, \hff, \hfb, \h93, \h93, \h8e, \h94, \h98, \h8e, \hfb, \hff, \hff, \hff, \hff >>,
    << \hff, \hff, \hff, \hfe, \h93, \h98, \h97, \h95, \h96, \h9c, \h95, \h9b, \hfc, \hff, \hff, \hff >>,
    << \hff, \hff, \hfe, \h95, \h90, \h96, \h99, \h97, \h95, \h9c, \h94, \h98, \h90, \hff, \hff, \hff >>,
    << \hff, \hfd, \h9e, \h9b, \h8f, \h90, \h9e, \h9d, \h97, \h9c, \h93, \h95, \h98, \h95, \hff, \hff >>,
    << \hff, \hff, \hff, \hff, \hfd, \h90, \h98, \h9c, \h9c, \h9c, \h98, \hfa, \hfd, \hff, \hff, \hff >>,
    << \hff, \hff, \hff, \hac, \h98, \h9c, \h9c, \h9c, \h9c, \h9c, \h94, \h95, \hfc, \hff, \hff, \hff >>,
    << \hff, \hfe, \h96, \h8f, \h91, \h99, \h97, \h92, \h99, \h99, \h92, \h96, \h98, \hb1, \hff, \hff >>,
    << \hff, \h93, \h98, \h94, \h93, \h98, \h99, \h97, \h99, \h9c, \h97, \h9a, \h9c, \h8b, \h89, \hff >>,
    << \hff, \hfe, \hfe, \hff, \hfe, \hfe, \hfe, \hfe, \hfe, \hfe, \hfe, \hfd, \hfe, \hff, \hfe, \hff >>,
    << \hff, \hff, \hff, \hff, \hff, \hff, \hff, \ha7, \ha7, \hff, \hff, \hff, \hff, \hff, \hff, \hff >>,
    << \hff, \hff, \hff, \hff, \hff, \hff, \hff, \h99, \h99, \hff, \hff, \hff, \hff, \hff, \hff, \hff >>,
    << \hff, \hff, \hff, \hff, \hff, \hff, \hff, \hb1, \ha9, \hff, \hff, \hff, \hff, \hff, \hff, \hff >>,
    << \hff, \hff, \hff, \hff, \hff, \hff, \hff, \hb0, \hb1, \hff, \hff, \hff, \hff, \hff, \hff, \hff >>,
    << \hff, \hff, \hff, \hff, \hff, \hff, \hff, \hb6, \hb1, \hff, \hff, \hff, \hff, \hff, \hff, \hff >>,
    << \hff, \hff, \hff, \hff, \hff, \hff, \hff, \hb6, \hb1, \hff, \hff, \hff, \hff, \hff, \hff, \hff >>
    >>

RECURSIVE Flatten(_)
Flatten(rows) ==
    IF rows = << >> THEN << >> ELSE Head(rows) \o Flatten(Tail(rows))

\* Mutant: the last value of the initialiser list is missing.
InitializerShort == SubSeq(Flatten(ImageRows), 1, Len(Flatten(ImageRows)) - 1)

\* Mutant: the first value of the initialiser list is missing, so every
\* value sits one place early.
InitializerShifted == Tail(Flatten(ImageRows)) \o << \hff >>

\* The brace-enclosed initialiser is one flat list; line breaks carry no
\* meaning to the compiler.
Initializer == Flatten(ImageRows)

\* uint8_t
Byte == 0 .. 255

\* The valid subscripts of  uint8_t image[IMAGE_LENGTH].
Indices == 0 .. (IMAGE_LENGTH - 1)

\* Aggregate initialisation: element i takes the i-th initialiser; elements
\* past the end of a shorter list are zero.  (A longer list does not compile.)
InitialImage ==
    [i \in Indices |-> IF i < Len(Initializer) THEN Initializer[i + 1] ELSE 0]

(* ---------------------------- consumers ------------------------------- *)

Readers == 1 .. NumReaders

Rows == 0 .. (IMAGE_HEIGHT - 1)

Cols == 0 .. (IMAGE_WIDTH - 1)

\* Mutant: the row stride is the height instead of the width.
FlatIndexHeightStride(r, c) == r * IMAGE_HEIGHT + c

\* Row-major addressing of the buffer: image[row * IMAGE_WIDTH + col].
FlatIndex(r, c) == r * IMAGE_WIDTH + c

\* Reader rd evaluates the subscript of  image[row * IMAGE_WIDTH + col].
ComputeIndex(rd, r, c) ==
    /\ pc[rd] \in {"idle", "done"}
    /\ pc' = [pc EXCEPT ![rd] = "loading"]
    /\ row' = [row EXCEPT ![rd] = r]
    /\ col' = [col EXCEPT ![rd] = c]
    /\ idx' = [idx EXCEPT ![rd] = FlatIndex(r, c)]
    /\ val' = [val EXCEPT ![rd] = NoVal]
    /\ UNCHANGED << image, nwrites, watch, firstVal, n, quot, rem >>

\* History of the reads of the watched subscript: firstVal is
\* [seen |-> whether it was read, v |-> the byte the first read returned,
\*  between |-> another subscript was read since, reread |-> the watched
\*  subscript was read again, after |-> ... with another read in between].
NoteRead(i, v) ==
    IF watch = NoVal THEN firstVal
    ELSE IF i = watch
         THEN IF firstVal.seen
              THEN [firstVal EXCEPT !.reread = TRUE, !.after = firstVal.between]
              ELSE [firstVal EXCEPT !.seen = TRUE, !.v = v]
         ELSE IF firstVal.seen THEN [firstVal EXCEPT !.between = TRUE]
              ELSE firstVal

\* Mutant: a destructive read, which clears the element it returns.
LoadClearing(rd) ==
    /\ pc[rd] = "loading"
    /\ idx[rd] \in DOMAIN image
    /\ val' = [val EXCEPT ![rd] = image[idx[rd]]]
    /\ image' = [image EXCEPT ![idx[rd]] = 0]
    /\ pc' = [pc EXCEPT ![rd] = "done"]
    /\ firstVal' = NoteRead(idx[rd], image[idx[rd]])
    /\ UNCHANGED << row, col, idx, nwrites, watch, n, quot, rem >>

\* Reader rd loads image[idx].  A subscript outside the array is undefined
\* behaviour: the reader is left in "ub", from which nothing is known.
Load(rd) ==
    /\ pc[rd] = "loading"
    /\ IF idx[rd] \in DOMAIN image
       THEN /\ val' = [val EXCEPT ![rd] = image[idx[rd]]]
            /\ pc' = [pc EXCEPT ![rd] = "done"]
            /\ firstVal' = NoteRead(idx[rd], image[idx[rd]])
       ELSE /\ pc' = [pc EXCEPT ![rd] = "ub"]
            /\ UNCHANGED << val, firstVal >>
    /\ UNCHANGED << image, row, col, idx, nwrites, watch, n, quot, rem >>

\* image[row * IMAGE_WIDTH + col] = v: the array is declared without const,
\* so the including code may assign to its elements.
Write(r, c, v) ==
    /\ nwrites < MaxWrites
    /\ FlatIndex(r, c) \in DOMAIN image
    /\ image' = [image EXCEPT ![FlatIndex(r, c)] = v]
    /\ nwrites' = nwrites + 1
    /\ UNCHANGED << pc, row, col, idx, val, watch, firstVal, n, quot, rem >>

\* n / IMAGE_LENGTH, evaluated on the macro's expansion.
Divide ==
    /\ quot = NoVal
    /\ quot' = ExpandAsRightOperand(n, "/")
    /\ UNCHANGED << image, pc, row, col, idx, val, nwrites, watch, firstVal, n, rem >>

\* n % IMAGE_LENGTH, evaluated on the macro's expansion.
Modulo ==
    /\ rem = NoVal
    /\ rem' = ExpandAsRightOperand(n, "%")
    /\ UNCHANGED << image, pc, row, col, idx, val, nwrites, watch, firstVal, n, quot >>

(* ---------------------------- specifications -------------------------- *)

NoHistory == [seen |-> FALSE, v |-> NoVal, between |-> FALSE, reread |-> FALSE, after |-> FALSE]

\* The state at program start: static initialisation of `image` is done,
\* no consumer has touched it.
InitBase ==
    /\ image = InitialImage
    /\ pc = [rd \in Readers |-> "idle"]
    /\ row = [rd \in Readers |-> NoVal]
    /\ col = [rd \in Readers |-> NoVal]
    /\ idx = [rd \in Readers |-> NoVal]
    /\ val = [rd \in Readers |-> NoVal]
    /\ nwrites = 0
    /\ firstVal = NoHistory
    /\ quot = NoVal
    /\ rem = NoVal

\* One consumer reading any element, any number of times.
Init ==
    /\ InitBase
    /\ watch = NoVal
    /\ n = 0

Next ==
    \/ \E r \in Rows, c \in Cols : ComputeIndex(1, r, c)
    \/ Load(1)

Spec == Init /\ [][Next]_vars

\* The same consumer, with the reads of one subscript followed.
InitReRead ==
    /\ InitBase
    /\ watch \in WatchSet
    /\ n = 0

SpecReRead == InitReRead /\ [][Next]_vars

\* Several consumers reading concurrently, with no synchronisation.
NextReaders ==
    \/ \E rd \in Readers, r \in ProbeRows, c \in ProbeCols : ComputeIndex(rd, r, c)
    \/ \E rd \in Readers : Load(rd)

SpecReaders == Init /\ [][NextReaders]_vars

\* A consumer that also assigns to elements.
NextWrite ==
    \/ \E r \in ProbeRows, c \in ProbeCols : ComputeIndex(1, r, c)
    \/ Load(1)
    \/ \E r \in Rows, c \in Cols, v \in WriteVals : Write(r, c, v)

SpecWrite == Init /\ [][NextWrite]_vars

\* A consumer using IMAGE_LENGTH as the right operand of / and %.
InitMacro ==
    /\ InitBase
    /\ watch = NoVal
    /\ n \in 0 .. MaxN

NextMacro ==
    \/ Divide
    \/ Modulo

SpecMacro == InitMacro /\ [][NextMacro]_vars

(* ---------------------------- properties ---------------------------- *)

\* A completed read by reader rd of subscript i.
ReadDone(rd, i) == pc[rd] = "done" /\ idx[rd] = i

\* C1 (as stated): a read of the last element (row 23, col 15, flat index
\* 383) returns 0xb1.
C1_LastElementIsB1 ==
    \A rd \in Readers :
        (ReadDone(rd, 383) /\ row[rd] = 23 /\ col[rd] = 15) => val[rd] = \hb1

\* C1 (amended): a read of the last element (row 23, col 15, flat index 383)
\* returns 0xff.
C1_LastElementIsFF ==
    /\ FlatIndex(23, 15) = 383
    /\ \A rd \in Readers :
        (pc[rd] = "done" /\ row[rd] = 23 /\ col[rd] = 15) =>
            (idx[rd] = 383 /\ val[rd] = \hff)

C1_Witness == ReadDone(1, 383) /\ row[1] = 23 /\ col[1] = 15

\* C2 (as stated): a read at row 8, col 0 (flat index 128) returns 0xfb.
C2_Row8Col0IsFB ==
    \A rd \in Readers :
        (ReadDone(rd, 128) /\ row[rd] = 8 /\ col[rd] = 0) => val[rd] = \hfb

\* C2 (amended): a read at row 8, col 0 (flat index 128) returns 0xff.
C2_Row8Col0IsFF ==
    /\ FlatIndex(8, 0) = 128
    /\ \A rd \in Readers :
        (pc[rd] = "done" /\ row[rd] = 8 /\ col[rd] = 0) =>
            (idx[rd] = 128 /\ val[rd] = \hff)

C2_Witness == ReadDone(1, 128) /\ row[1] = 8 /\ col[1] = 0

\* C3: a read at flat index 7 (row 0, col 7) returns 0x95.
C3_Index7Is95 ==
    /\ FlatIndex(0, 7) = 7
    /\ \A rd \in Readers :
        (pc[rd] = "done" /\ row[rd] = 0 /\ col[rd] = 7) =>
            (idx[rd] = 7 /\ val[rd] = \h95)

C3_Witness == ReadDone(1, 7) /\ row[1] = 0 /\ col[1] = 7

\* C4 (as stated): whatever a consumer of `image` does, every element still
\* holds the byte it was initialised with.
C4_ImageNeverChanges == \A i \in Indices : image[i] = InitialImage[i]

\* C5: the initialiser list holds exactly IMAGE_LENGTH = 384 values, written
\* as 24 rows of 16, so every element of the array has its own initialiser
\* and none is left over.
C5_InitializerFillsArray ==
    /\ Len(Initializer) = IMAGE_LENGTH
    /\ IMAGE_LENGTH = 384
    /\ Len(ImageRows) = 24
    /\ \A k \in 1 .. Len(ImageRows) : Len(ImageRows[k]) = 16
    /\ DOMAIN image = 0 .. (Len(Initializer) - 1)
    /\ \A i \in DOMAIN image : image[i] = Initializer[i + 1]

C5_Witness == ReadDone(1, Len(Initializer) - 1) /\ val[1] = Initializer[Len(Initializer)]

\* C6: width = 16, height = 24, pixel size = 1, and the length constant is
\* width * height * pixel size = 384.
C6_DimensionConstants ==
    /\ IMAGE_WIDTH = 16
    /\ IMAGE_HEIGHT = 24
    /\ PIXEL_SIZE = 1
    /\ IMAGE_LENGTH = IMAGE_WIDTH * IMAGE_HEIGHT * PIXEL_SIZE
    /\ IMAGE_LENGTH = 384
    /\ Cardinality(DOMAIN image) = 384

C6_Witness ==
    /\ pc[1] = "done"
    /\ row[1] = IMAGE_HEIGHT - 1
    /\ col[1] = IMAGE_WIDTH - 1
    /\ idx[1] = IMAGE_LENGTH - 1

\* Row-major addressing maps the (row, col) pairs one-to-one onto the
\* subscripts of the array.
FlatIndexBijective ==
    /\ \A r \in Rows, c \in Cols : FlatIndex(r, c) \in Indices
    /\ \A r1 \in Rows, c1 \in Cols, r2 \in Rows, c2 \in Cols :
        FlatIndex(r1, c1) = FlatIndex(r2, c2) => (r1 = r2 /\ c1 = c2)
    /\ \A i \in Indices :
        Cardinality({rc \in Rows \X Cols : FlatIndex(rc[1], rc[2]) = i}) = 1

\* C7: for row in [0, IMAGE_HEIGHT) and col in [0, IMAGE_WIDTH) the flat
\* index row * IMAGE_WIDTH + col is in [0, IMAGE_LENGTH), distinct pairs give
\* distinct indices, every index comes from exactly one pair, and a read at
\* that index always succeeds and returns the stored byte.
C7_FlatIndexAddressesEveryElement ==
    /\ FlatIndexBijective
    /\ \A rd \in Readers :
        /\ pc[rd] # "ub"
        /\ pc[rd] = "loading" => idx[rd] \in DOMAIN image
        /\ pc[rd] = "done" =>
            /\ idx[rd] = row[rd] * IMAGE_WIDTH + col[rd]
            /\ val[rd] \in Byte
            /\ val[rd] = InitialImage[idx[rd]]

C7_Witness ==
    /\ pc[1] = "done"
    /\ row[1] = 23
    /\ col[1] = 0
    /\ idx[1] = 368
    /\ val[1] = \hff

\* C8: with any number of readers and no synchronisation, under every
\* interleaving of their reads each read of index i returns the byte
\* initially stored at i, and two reads of the same index never return
\* different values.
C8_ConcurrentReadsAgree ==
    /\ \A rd \in Readers :
        pc[rd] = "done" => val[rd] = InitialImage[idx[rd]]
    /\ \A r1 \in Readers, r2 \in Readers :
        (pc[r1] = "done" /\ pc[r2] = "done" /\ idx[r1] = idx[r2]) =>
            val[r1] = val[r2]

C8_Witness ==
    /\ pc[1] = "done"
    /\ pc[2] = "done"
    /\ idx[1] = 7
    /\ idx[2] = 7
    /\ val[1] = \h95
    /\ val[2] = \h95

\* C9: a read has no side effect: the step that completes a read leaves
\* every element of the buffer unchanged, and a read of a subscript that was
\* read before (whatever was read in between) returns the value the first
\* read returned.
C9_ReadHasNoSideEffect ==
    [][\A rd \in Readers :
        (pc[rd] = "loading" /\ pc'[rd] = "done") =>
            /\ image' = image
            /\ (idx[rd] = watch /\ firstVal.seen) => val'[rd] = firstVal.v]_vars

C9_Witness ==
    /\ ReadDone(1, watch)
    /\ firstVal.reread
    /\ firstVal.after
    /\ val[1] = firstVal.v

\* C10 (as stated): for every n, n / IMAGE_LENGTH and n % IMAGE_LENGTH,
\* evaluated on the macro's expansion, equal n / 384 and n % 384.
C10_LengthMacroIsOneOperand ==
    /\ quot # NoVal => quot = n \div 384
    /\ rem # NoVal => rem = n % 384

====
